---- MODULE Spec2Model ----
(***************************************************************************)
(* Model of the bonus-hedge finder (src/main.py): normalisation of the     *)
(* provider's event records into OddsRow quotes, the American-odds         *)
(* arithmetic, the matching of bonus quotes to hedge quotes, the threshold *)
(* filter and the selection of the best opportunity.                       *)
(*                                                                         *)
(* Python floats are modelled as exact rationals <<numerator, denominator>>*)
(* in lowest terms with a positive denominator.  A Python exception is a   *)
(* value of the field exc of a result record ("none" when nothing is       *)
(* raised).                                                                *)
(***************************************************************************)
EXTENDS Integers, Sequences, FiniteSets, TLC

VARIABLES
    pc,                \* position in main(): which stage runs next
    bonus_arg,         \* args.bonus_book, the user-facing name
    books_arg,         \* args.books, the comma separated names as a sequence
    stake,             \* args.stake
    min_eff,           \* args.min_eff (a rational)
    n_events,          \* number of event records collect_all_odds has parsed
    event_data,        \* the event record handed to parse_event_odds
    all_rows,          \* collect_all_odds: all_rows / main: odds_rows
    all_opportunities, \* find_all_opportunities: the unfiltered list
    opportunities,     \* find_all_opportunities: filtered (the returned list)
    best,              \* main: best
    calc_in,           \* arguments <<bonus_odds, hedge_odds>> of calculate_hedge
    calc_out,          \* what calculate_hedge returned or raised
    err                \* the exception that ended the run, "none" if none

vars == <<pc, bonus_arg, books_arg, stake, min_eff, n_events, event_data,
          all_rows, all_opportunities, opportunities, best, calc_in,
          calc_out, err>>

-----------------------------------------------------------------------------
(* Bounds and input sets *)

\* number of event records one run receives from the provider
MaxEvents == 2

None == [none |-> TRUE]

-----------------------------------------------------------------------------
(* Exact rational arithmetic standing for Python's float arithmetic *)

Abs(n) == IF n < 0 THEN -n ELSE n

RECURSIVE GCD(_, _)
GCD(a, b) == IF b = 0 THEN a ELSE GCD(b, a % b)

\* n/d in lowest terms, d # 0
Rat(n, d) ==
    LET s == IF d < 0 THEN -1 ELSE 1
        g == GCD(Abs(n), Abs(d))
    IN  <<(s * n) \div g, (s * d) \div g>>

RInt(n) == <<n, 1>>
RAdd(x, y) == Rat(x[1] * y[2] + y[1] * x[2], x[2] * y[2])
RSub(x, y) == Rat(x[1] * y[2] - y[1] * x[2], x[2] * y[2])
RMul(x, y) == Rat(x[1] * y[1], x[2] * y[2])
\* y # 0
RDiv(x, y) == Rat(x[1] * y[2], x[2] * y[1])
RLess(x, y) == x[1] * y[2] < y[1] * x[2]
RLeq(x, y) == x[1] * y[2] <= y[1] * x[2]
RIsZero(x) == x[1] = 0
\* Python's min(a, b): the first argument unless the second is smaller
RMin(a, b) == IF RLess(b, a) THEN b ELSE a

Ok(v) == [exc |-> "none", val |-> v]
Raise(e) == [exc |-> e, val |-> None]

-----------------------------------------------------------------------------
(* CONFIGURATION *)

BOOK_ALIASES == [b \in {"fanduel", "caesars"} |->
                    IF b = "caesars" THEN "williamhill_us" ELSE b]

\* book_string.split(",") is given as the sequence of the names
parse_books(book_string) ==
    {BOOK_ALIASES[book_string[i]] : i \in 1..Len(book_string)}

\* main(): hedge_books, bonus_book, all_books
hedge_books == parse_books(books_arg)
bonus_book == BOOK_ALIASES[bonus_arg]
all_books == hedge_books \cup {bonus_book}

-----------------------------------------------------------------------------
(* MATH *)

\* mutant: the net profit per unit instead of the total return per unit
american_to_decimal_ProfitOnly(o) ==
    IF o > 0 THEN Ok(Rat(o, 100))
    ELSE IF Abs(o) = 0 THEN Raise("ZeroDivisionError")
    ELSE Ok(Rat(100, Abs(o)))

american_to_decimal(o) ==
    IF o > 0 THEN Ok(RAdd(RInt(1), Rat(o, 100)))
    ELSE IF Abs(o) = 0 THEN Raise("ZeroDivisionError")
    ELSE Ok(RAdd(RInt(1), Rat(100, Abs(o))))

\* efficiency = profit / stake; return hedge, profit, efficiency
hedge_efficiency(s, hedge, profit) ==
    IF RIsZero(s) THEN Raise("ZeroDivisionError")
    ELSE Ok([hedge_stake |-> hedge,
             profit      |-> profit,
             efficiency  |-> RDiv(profit, s)])

\* profit = min(stake * (dA - 1) - hedge, hedge * (dB - 1)), win = stake * (dA - 1)
hedge_profit(s, win, dB, hedge) ==
    hedge_efficiency(s, hedge,
        RMin(RSub(win, hedge), RMul(hedge, RSub(dB, RInt(1)))))

\* hedge = stake * (dA - 1) / dB
hedge_stake_of(s, dA, dB) ==
    IF dA.exc # "none" THEN Raise(dA.exc)
    ELSE IF dB.exc # "none" THEN Raise(dB.exc)
    ELSE hedge_profit(s, RMul(s, RSub(dA.val, RInt(1))), dB.val,
                      RDiv(RMul(s, RSub(dA.val, RInt(1))), dB.val))

calculate_hedge(stk, bonus_odds, hedge_odds) ==
    hedge_stake_of(RInt(stk), american_to_decimal(bonus_odds),
                   american_to_decimal(hedge_odds))

-----------------------------------------------------------------------------
(* DATA EXTRACTION *)

OddsRow(ev, sel, opp, bk, o) ==
    [event |-> ev, selection |-> sel, opposite |-> opp, book |-> bk, odds |-> o]

\* f"{away_team} @ {home_team}"
extract_event_name(ev) == <<ev.away_team, " @ ", ev.home_team>>

extract_outcomes(market) ==
    IF Len(market.outcomes) # 2 THEN Raise("ValueError")
    ELSE Ok(<<market.outcomes[1], market.outcomes[2]>>)

\* mutant: each row names its own selection as the opposite
market_rows_SelfOpposite(event_name, book_key, outcome_a, outcome_b) ==
    << OddsRow(event_name, outcome_a.name, outcome_a.name, book_key, outcome_a.price),
       OddsRow(event_name, outcome_b.name, outcome_b.name, book_key, outcome_b.price) >>

\* the two rows appended for one market
market_rows(event_name, book_key, outcome_a, outcome_b) ==
    << OddsRow(event_name, outcome_a.name, outcome_b.name, book_key, outcome_a.price),
       OddsRow(event_name, outcome_b.name, outcome_a.name, book_key, outcome_b.price) >>

\* the loop over bookmaker["markets"], from market i on, rows so far
RECURSIVE parse_markets(_, _, _, _, _)
parse_markets(event_name, book_key, markets, i, rows) ==
    IF i > Len(markets) THEN Ok(rows)
    ELSE IF markets[i].key # "h2h"
         THEN parse_markets(event_name, book_key, markets, i + 1, rows)
    ELSE LET oc == extract_outcomes(markets[i])
         IN  IF oc.exc # "none" THEN Raise(oc.exc)
             ELSE parse_markets(event_name, book_key, markets, i + 1,
                     rows \o market_rows(event_name, book_key, oc.val[1], oc.val[2]))

\* mutant: the allowed-books test is missing
RECURSIVE parse_bookmakers_AllBooks(_, _, _, _)
parse_bookmakers_AllBooks(ev, allowed_books, i, rows) ==
    IF i > Len(ev.bookmakers) THEN Ok(rows)
    ELSE LET bookmaker == ev.bookmakers[i]
             r == parse_markets(extract_event_name(ev), bookmaker.key,
                                bookmaker.markets, 1, rows)
         IN  IF r.exc # "none" THEN Raise(r.exc)
             ELSE parse_bookmakers_AllBooks(ev, allowed_books, i + 1, r.val)

\* the loop over event_data["bookmakers"], from bookmaker i on, rows so far
RECURSIVE parse_bookmakers(_, _, _, _)
parse_bookmakers(ev, allowed_books, i, rows) ==
    IF i > Len(ev.bookmakers) THEN Ok(rows)
    ELSE LET bookmaker == ev.bookmakers[i]
         IN  IF bookmaker.key \notin allowed_books
             THEN parse_bookmakers(ev, allowed_books, i + 1, rows)
             ELSE LET r == parse_markets(extract_event_name(ev), bookmaker.key,
                                         bookmaker.markets, 1, rows)
                  IN  IF r.exc # "none" THEN Raise(r.exc)
                      ELSE parse_bookmakers(ev, allowed_books, i + 1, r.val)

parse_event_odds(ev, allowed_books) ==
    parse_bookmakers(ev, allowed_books, 1, <<>>)

-----------------------------------------------------------------------------
(* HEDGE FINDING *)

HedgeOpportunity(bonus_row, row, h) ==
    [event       |-> bonus_row.event,
     selection   |-> bonus_row.selection,
     opposite    |-> bonus_row.opposite,
     bonus_book  |-> bonus_row.book,
     bonus_odds  |-> bonus_row.odds,
     hedge_book  |-> row.book,
     hedge_odds  |-> row.odds,
     hedge_stake |-> h.hedge_stake,
     profit      |-> h.profit,
     efficiency  |-> h.efficiency]

\* mutant: the different-book test is missing
is_hedge_partner_AnyBook(bonus_row, row) ==
    /\ row.event = bonus_row.event
    /\ row.selection = bonus_row.opposite

\* same event, opposite selection, different book
is_hedge_partner(bonus_row, row) ==
    /\ row.event = bonus_row.event
    /\ row.selection = bonus_row.opposite
    /\ row.book # bonus_row.book

RECURSIVE hedge_loop(_, _, _, _, _)

\* the body of the if: h is what calculate_hedge returned or raised for row i
hedge_append(bonus_row, rows, stk, i, opps, h) ==
    IF h.exc # "none" THEN Raise(h.exc)
    ELSE hedge_loop(bonus_row, rows, stk, i + 1,
            Append(opps, HedgeOpportunity(bonus_row, rows[i], h.val)))

\* the loop over all_rows, from row i on, opps the opportunities so far
hedge_loop(bonus_row, rows, stk, i, opps) ==
    IF i > Len(rows) THEN Ok(opps)
    ELSE IF ~is_hedge_partner(bonus_row, rows[i])
         THEN hedge_loop(bonus_row, rows, stk, i + 1, opps)
    ELSE hedge_append(bonus_row, rows, stk, i, opps,
            calculate_hedge(stk, bonus_row.odds, rows[i].odds))

find_hedge_for_bonus(bonus_row, rows, stk) ==
    hedge_loop(bonus_row, rows, stk, 1, <<>>)

\* bonus_rows = [r for r in rows if r.book == bonus_book]
select_bonus_rows(rows, bk) ==
    LET IsBonus(r) == r.book = bk IN SelectSeq(rows, IsBonus)

RECURSIVE bonus_loop(_, _, _, _, _)

\* all_opportunities.extend(opportunities): r is what find_hedge_for_bonus
\* returned or raised for bonus row i
bonus_extend(bonus_rows, rows, stk, i, opps, r) ==
    IF r.exc # "none" THEN Raise(r.exc)
    ELSE bonus_loop(bonus_rows, rows, stk, i + 1, opps \o r.val)

\* the loop over bonus_rows, from bonus row i on, opps so far
bonus_loop(bonus_rows, rows, stk, i, opps) ==
    IF i > Len(bonus_rows) THEN Ok(opps)
    ELSE bonus_extend(bonus_rows, rows, stk, i, opps,
            find_hedge_for_bonus(bonus_rows[i], rows, stk))

\* the local all_opportunities of find_all_opportunities
collect_opportunities(rows, bk, stk) ==
    bonus_loop(select_bonus_rows(rows, bk), rows, stk, 1, <<>>)

\* mutant: the threshold is exclusive
filter_by_efficiency_Strict(opps, min_efficiency) ==
    LET Keep(opp) == RLess(min_efficiency, opp.efficiency) IN SelectSeq(opps, Keep)

\* filtered = [opp for opp in all_opportunities if opp.efficiency >= min_efficiency]
filter_by_efficiency(opps, min_efficiency) ==
    LET Keep(opp) == RLeq(min_efficiency, opp.efficiency) IN SelectSeq(opps, Keep)

\* the filtered list of the scored pairings r, unless scoring raised
filter_result(r, min_efficiency) ==
    IF r.exc # "none" THEN Raise(r.exc)
    ELSE Ok(filter_by_efficiency(r.val, min_efficiency))

\* mutant: the unfiltered list is returned
find_all_opportunities_Unfiltered(rows, bk, stk, min_efficiency) ==
    collect_opportunities(rows, bk, stk)

find_all_opportunities(rows, bk, stk, min_efficiency) ==
    filter_result(collect_opportunities(rows, bk, stk), min_efficiency)

\* mutant: an equal key replaces the running maximum (the last maximum wins)
RECURSIVE max_by_efficiency_LastMax(_, _, _)
max_by_efficiency_LastMax(opps, i, cur) ==
    IF i > Len(opps) THEN cur
    ELSE max_by_efficiency_LastMax(opps, i + 1,
            IF RLeq(cur.efficiency, opps[i].efficiency) THEN opps[i] ELSE cur)

\* max(opportunities, key=...): the running maximum is replaced only by a
\* strictly greater key, so the first of several maxima is returned
RECURSIVE max_by_efficiency(_, _, _)
max_by_efficiency(opps, i, cur) ==
    IF i > Len(opps) THEN cur
    ELSE max_by_efficiency(opps, i + 1,
            IF RLess(cur.efficiency, opps[i].efficiency) THEN opps[i] ELSE cur)

select_best_opportunity(opps) ==
    IF opps = <<>> THEN None
    ELSE max_by_efficiency(opps, 2, opps[1])

-----------------------------------------------------------------------------
(* Inputs: command line arguments and the provider's event records *)

UserBooks == {"fanduel", "caesars"}
BooksArgs == {<<"caesars">>, <<"fanduel", "caesars">>}
Stakes == {-250, 0, 250}
MinEffs == {<<0, 1>>, <<12, 25>>, <<1, 1>>}

\* bookmaker keys in the order the provider lists them
ProviderBooks == <<"fanduel", "williamhill_us">>
\* <<away_team, home_team>>
Fixtures == {<<"Lakers", "Celtics">>, <<"Celtics", "Lakers">>}

Outcome(n, p) == [name |-> n, price |-> p]
Market(k, oc) == [key |-> k, outcomes |-> oc]

MarketLists(away, home) ==
    { <<>>,
      << Market("h2h", <<Outcome(away, 120), Outcome(home, -150)>>) >>,
      << Market("h2h", <<Outcome(away, 0), Outcome(home, 120)>>) >>,
      << Market("spreads", <<Outcome(away, -150), Outcome(home, -150), Outcome("Draw", 120)>>),
         Market("h2h", <<Outcome(away, 120), Outcome(home, -150)>>) >>,
      << Market("h2h", <<Outcome(away, 120), Outcome("Draw", 120), Outcome(home, 120)>>) >>,
      << Market("h2h", <<Outcome(away, 120), Outcome(home, -150)>>),
         Market("h2h", <<Outcome(home, -150)>>) >> }

\* further market lists, given to parse_event_odds on its own
MoreMarketLists(away, home) ==
    { << Market("h2h", <<Outcome(home, 120), Outcome(away, 120)>>) >>,
      << Market("h2h", <<Outcome(away, -150), Outcome(home, 120)>>),
         Market("totals", <<Outcome("Over", -150), Outcome("Under", 120)>>),
         Market("h2h", <<Outcome(home, 120), Outcome(away, -150)>>) >>,
      << Market("h2h", <<>>) >> }

\* bookmaker k of the provider is absent from the record or lists its markets
BookmakerEntries(k, lists) ==
    {<<>>} \cup {<<[key |-> ProviderBooks[k], markets |-> m]>> : m \in lists}

EventRecords(away, home, lists) ==
    {[away_team |-> away, home_team |-> home, bookmakers |-> a \o b] :
        a \in BookmakerEntries(1, lists), b \in BookmakerEntries(2, lists)}

EventData ==
    UNION {EventRecords(f[1], f[2], MarketLists(f[1], f[2])) : f \in Fixtures}

ParseEventData ==
    UNION {EventRecords(f[1], f[2], MarketLists(f[1], f[2]) \cup MoreMarketLists(f[1], f[2])) :
             f \in Fixtures}

HedgeStakes == {-250, 0, 100, 250}
HedgeOdds == {-200, -150, -110, 0, 100, 120, 250}

-----------------------------------------------------------------------------
(* main(): collect the odds, find the opportunities, display the best *)

Init ==
    /\ pc = "collect"
    /\ bonus_arg \in UserBooks
    /\ books_arg \in BooksArgs
    /\ stake \in Stakes
    /\ min_eff \in MinEffs
    /\ n_events = 0
    /\ event_data = None
    /\ all_rows = <<>>
    /\ all_opportunities = <<>>
    /\ opportunities = <<>>
    /\ best = None
    /\ calc_in = None
    /\ calc_out = None
    /\ err = "none"

\* collect_all_odds: one iteration of "for event in events"
CollectEvent ==
    /\ pc = "collect"
    /\ n_events < MaxEvents
    /\ \E ev \in EventData :
          LET r == parse_event_odds(ev, all_books)
          IN  IF r.exc = "none"
              THEN /\ all_rows' = all_rows \o r.val
                   /\ n_events' = n_events + 1
                   /\ UNCHANGED <<pc, err>>
              ELSE /\ pc' = "aborted"
                   /\ err' = r.exc
                   /\ UNCHANGED <<all_rows, n_events>>
    /\ UNCHANGED <<bonus_arg, books_arg, stake, min_eff, event_data,
                   all_opportunities, opportunities, best, calc_in, calc_out>>

\* main(): opportunities = find_all_opportunities(odds_rows, bonus_book, stake, min_eff)
FindOpportunities ==
    /\ pc = "collect"
    /\ \E a \in {collect_opportunities(all_rows, bonus_book, stake)},
          r \in {find_all_opportunities(all_rows, bonus_book, stake, min_eff)} :
          IF r.exc = "none"
          THEN /\ all_opportunities' = a.val
               /\ opportunities' = r.val
               /\ pc' = "display"
               /\ UNCHANGED err
          ELSE /\ pc' = "aborted"
               /\ err' = r.exc
               /\ UNCHANGED <<all_opportunities, opportunities>>
    /\ UNCHANGED <<bonus_arg, books_arg, stake, min_eff, n_events, event_data,
                   all_rows, best, calc_in, calc_out>>

\* main(): "if not opportunities: return", else best = select_best_opportunity(...)
Display ==
    /\ pc = "display"
    /\ best' = IF opportunities = <<>> THEN best
               ELSE select_best_opportunity(opportunities)
    /\ pc' = "done"
    /\ UNCHANGED <<bonus_arg, books_arg, stake, min_eff, n_events, event_data,
                   all_rows, all_opportunities, opportunities, calc_in,
                   calc_out, err>>

Next == CollectEvent \/ FindOpportunities \/ Display

Spec == Init /\ [][Next]_vars

-----------------------------------------------------------------------------
(* parse_event_odds on its own: one event record, one set of allowed books *)

InitNormalize ==
    /\ pc = "parse"
    /\ bonus_arg \in UserBooks
    /\ books_arg \in BooksArgs
    /\ event_data \in ParseEventData
    /\ stake = 250
    /\ min_eff = <<0, 1>>
    /\ n_events = 0
    /\ all_rows = <<>>
    /\ all_opportunities = <<>>
    /\ opportunities = <<>>
    /\ best = None
    /\ calc_in = None
    /\ calc_out = None
    /\ err = "none"

\* rows = parse_event_odds(event, allowed_books)
ParseEvent ==
    /\ pc = "parse"
    /\ LET r == parse_event_odds(event_data, all_books)
       IN  IF r.exc = "none"
           THEN /\ all_rows' = r.val
                /\ n_events' = n_events + 1
                /\ pc' = "parsed"
                /\ UNCHANGED err
           ELSE /\ pc' = "aborted"
                /\ err' = r.exc
                /\ UNCHANGED <<all_rows, n_events>>
    /\ UNCHANGED <<bonus_arg, books_arg, stake, min_eff, event_data,
                   all_opportunities, opportunities, best, calc_in, calc_out>>

NextNormalize == ParseEvent

SpecNormalize == InitNormalize /\ [][NextNormalize]_vars

-----------------------------------------------------------------------------
(* calculate_hedge on its own: one stake, one pair of odds *)

InitHedge ==
    /\ pc = "calc"
    /\ stake \in HedgeStakes
    /\ calc_in \in HedgeOdds \X HedgeOdds
    /\ calc_out = None
    /\ bonus_arg = "fanduel"
    /\ books_arg = <<"caesars">>
    /\ min_eff = <<0, 1>>
    /\ n_events = 0
    /\ event_data = None
    /\ all_rows = <<>>
    /\ all_opportunities = <<>>
    /\ opportunities = <<>>
    /\ best = None
    /\ err = "none"

\* hedge_stake, profit, efficiency = calculate_hedge(stake, bonus_odds, hedge_odds)
CalculateHedge ==
    /\ pc = "calc"
    /\ LET r == calculate_hedge(stake, calc_in[1], calc_in[2])
       IN  IF r.exc = "none"
           THEN /\ calc_out' = r.val
                /\ pc' = "calculated"
                /\ UNCHANGED err
           ELSE /\ pc' = "aborted"
                /\ err' = r.exc
                /\ UNCHANGED calc_out
    /\ UNCHANGED <<bonus_arg, books_arg, stake, min_eff, n_events, event_data,
                   all_rows, all_opportunities, opportunities, best, calc_in>>

NextHedge == CalculateHedge

SpecHedge == InitHedge /\ [][NextHedge]_vars

-----------------------------------------------------------------------------
(* Properties of the pipeline (Spec) *)

Finished == pc \in {"display", "done"}

\* index pairs <<i, j>> of the quotes that the spec calls a valid pairing
PairIdx(rows, bk) ==
    {p \in (1..Len(rows)) \X (1..Len(rows)) :
        /\ rows[p[1]].book = bk
        /\ rows[p[2]].event = rows[p[1]].event
        /\ rows[p[2]].selection = rows[p[1]].opposite
        /\ rows[p[2]].book # rows[p[1]].book}

\* pairing order: bonus quote first, hedge quote second
Before(q, p) == q[1] < p[1] \/ (q[1] = p[1] /\ q[2] < p[2])

PairSig(rows, p) ==
    <<rows[p[1]].event, rows[p[1]].selection, rows[p[1]].opposite,
      rows[p[1]].book, rows[p[1]].odds, rows[p[2]].book, rows[p[2]].odds>>

OppSig(o) ==
    <<o.event, o.selection, o.opposite, o.bonus_book, o.bonus_odds,
      o.hedge_book, o.hedge_odds>>

PairEff(rows, p) ==
    calculate_hedge(stake, rows[p[1]].odds, rows[p[2]].odds).val.efficiency

Pairs == PairIdx(all_rows, bonus_book)
Retained(p) == RLeq(min_eff, PairEff(all_rows, p))

\* C1: when matching completes, the pairings produced are exactly the pairs
\* (q, r) of quotes with q.book = bonus_book, r.event = q.event,
\* r.selection = q.opposite and r.book # q.book, each one once and no other;
\* no pairing has its bonus and its hedge quote at the same bookmaker.
C1_MatchingExact ==
    Finished =>
      LET n    == Len(all_opportunities)
          sigs == {PairSig(all_rows, p) : p \in Pairs}
                    \cup {OppSig(all_opportunities[k]) : k \in 1..n}
      IN  /\ n = Cardinality(Pairs)
          /\ \A sg \in sigs :
                Cardinality({k \in 1..n : OppSig(all_opportunities[k]) = sg})
                  = Cardinality({p \in Pairs : PairSig(all_rows, p) = sg})
          /\ \A k \in 1..n :
                all_opportunities[k].bonus_book # all_opportunities[k].hedge_book

\* several pairings were produced while a same-book candidate and a
\* candidate of another event were passed over
C1_Witness ==
    /\ pc = "done"
    /\ Len(all_opportunities) >= 2
    /\ \E i, j \in 1..Len(all_rows) :
          /\ all_rows[i].book = bonus_book
          /\ all_rows[j].book = bonus_book
          /\ all_rows[j].event = all_rows[i].event
          /\ all_rows[j].selection = all_rows[i].opposite
    /\ \E i, j \in 1..Len(all_rows) :
          /\ all_rows[i].book = bonus_book
          /\ all_rows[j].book # bonus_book
          /\ all_rows[j].event # all_rows[i].event
          /\ all_rows[j].selection = all_rows[i].opposite

\* C2: the best opportunity is a retained pairing of greatest efficiency, and
\* among the retained pairings of that efficiency it is the first in pairing
\* order (bonus candidates in quote order, then all quotes in quote order).
C2_BestIsFirstMax ==
    (pc = "done" /\ \E q \in Pairs : Retained(q)) =>
      \E p \in Pairs :
         /\ Retained(p)
         /\ best # None
         /\ OppSig(best) = PairSig(all_rows, p)
         /\ best.efficiency = PairEff(all_rows, p)
         /\ \A q \in Pairs :
               Retained(q) =>
                 /\ RLeq(PairEff(all_rows, q), PairEff(all_rows, p))
                 /\ Before(q, p) => RLess(PairEff(all_rows, q), PairEff(all_rows, p))

\* two different retained opportunities tie for the greatest efficiency and a
\* retained one lies below it
C2_Witness ==
    /\ pc = "done"
    /\ best # None
    /\ \E k, m \in 1..Len(opportunities) :
          /\ k < m
          /\ opportunities[k] # opportunities[m]
          /\ opportunities[k].efficiency = best.efficiency
          /\ opportunities[m].efficiency = best.efficiency
    /\ \E k \in 1..Len(opportunities) :
          RLess(opportunities[k].efficiency, best.efficiency)

\* positions of the scored pairings that meet the threshold
KeptIdx ==
    {k \in 1..Len(all_opportunities) :
        min_eff[1] * all_opportunities[k].efficiency[2]
          <= all_opportunities[k].efficiency[1] * min_eff[2]}

\* C3: the filter retains an opportunity iff efficiency >= min_efficiency
\* (inclusive), and the retained ones keep their relative order.
C3_ThresholdFilter ==
    Finished =>
      /\ Len(opportunities) = Cardinality(KeptIdx)
      /\ \A k \in KeptIdx :
            opportunities[Cardinality({m \in KeptIdx : m <= k})] = all_opportunities[k]

\* an opportunity exactly at the threshold is retained, one below is dropped
\* from between two retained ones
C3_Witness ==
    /\ Finished
    /\ \E k \in 1..Len(opportunities) : opportunities[k].efficiency = min_eff
    /\ \E i, k, j \in 1..Len(all_opportunities) :
          /\ i < k /\ k < j
          /\ i \in KeptIdx /\ j \in KeptIdx /\ k \notin KeptIdx

\* C4: no best opportunity (None), and no error, when there is no pairing and
\* when every computed efficiency is below min_efficiency; a best opportunity
\* whenever some pairing has efficiency >= min_efficiency.
C4_AbsentIffNoneRetained ==
    /\ (Pairs = {} /\ pc # "collect") =>
          /\ err # "ZeroDivisionError"
          /\ pc = "done" => best = None
    /\ pc = "done" =>
          /\ err = "none"
          /\ (\A k \in 1..Len(all_opportunities) :
                RLess(all_opportunities[k].efficiency, min_eff)) => best = None
          /\ (\E k \in 1..Len(all_opportunities) :
                RLeq(min_eff, all_opportunities[k].efficiency))
               => \E k \in 1..Len(all_opportunities) : best = all_opportunities[k]

\* pairings were scored and all fell below the threshold: nothing is selected
C4_Witness ==
    /\ pc = "done"
    /\ all_opportunities # <<>>
    /\ opportunities = <<>>
    /\ best = None
    /\ err = "none"

\* C10: every reported opportunity has the designated bonus book as its
\* bonus_book and a hedge book other than the bonus book as its hedge_book,
\* also when the bonus book is listed among the hedge books.
C10_ReportedBooks ==
    /\ \A k \in 1..Len(opportunities) :
          /\ opportunities[k].bonus_book = bonus_book
          /\ opportunities[k].hedge_book \in hedge_books \ {bonus_book}
    /\ best # None =>
          /\ best.bonus_book = bonus_book
          /\ best.hedge_book \in hedge_books \ {bonus_book}

\* an opportunity is reported in a run whose bonus book is among the hedge books
C10_Witness ==
    /\ pc = "done"
    /\ best # None
    /\ bonus_book \in hedge_books

\* quotes with usable (nonzero) odds on both sides of the pairing
ValidPairs ==
    {p \in Pairs : all_rows[p[1]].odds # 0 /\ all_rows[p[2]].odds # 0}

\* C5 (as claimed): a quote with zero odds does not abort the run; it is left
\* out of the pairing and the pairings among the valid quotes are all scored.
C5_ZeroOddsExcluded ==
    (stake > 0 /\ pc \in {"display", "done", "aborted"} /\ err # "ValueError") =>
      /\ pc # "aborted"
      /\ Len(all_opportunities) = Cardinality(ValidPairs)
      /\ \A k \in 1..Len(all_opportunities) :
            all_opportunities[k].bonus_odds # 0 /\ all_opportunities[k].hedge_odds # 0

\* C6 (as claimed): with a stake that is not strictly positive no opportunity
\* is ever computed or returned.
C6_NonPositiveStakeRejected ==
    stake <= 0 =>
      /\ all_opportunities = <<>>
      /\ opportunities = <<>>
      /\ best = None

-----------------------------------------------------------------------------
(* Properties of normalisation (SpecNormalize) *)

\* <<bookmaker index, market index>> of the h2h markets of allowed bookmakers
AllowedH2H ==
    UNION {{<<b, m>> : m \in {m \in 1..Len(event_data.bookmakers[b].markets) :
                                event_data.bookmakers[b].markets[m].key = "h2h"}} :
           b \in {b \in 1..Len(event_data.bookmakers) :
                    event_data.bookmakers[b].key \in all_books}}

MarketAt(p) == event_data.bookmakers[p[1]].markets[p[2]]

WellFormedH2H == {p \in AllowedH2H : Len(MarketAt(p).outcomes) = 2}

\* position of market p among the markets of S, in record order
RankIn(S, p) == Cardinality({q \in S : Before(q, p)}) + 1

\* C9: when parse_event_odds returns, it has produced for every h2h market of
\* an allowed bookmaker exactly two quotes of the same event and book, one per
\* outcome, each naming the other's selection as its opposite, and no quote
\* for any other market or bookmaker.
C9_TwoQuotesPerMarket ==
    pc = "parsed" =>
      /\ Len(all_rows) = 2 * Cardinality(AllowedH2H)
      /\ \A p \in AllowedH2H :
            LET k  == RankIn(AllowedH2H, p)
                a  == all_rows[2 * k - 1]
                b  == all_rows[2 * k]
                oc == MarketAt(p).outcomes
            IN  /\ Len(oc) = 2
                /\ a.event = <<event_data.away_team, " @ ", event_data.home_team>>
                /\ b.event = a.event
                /\ a.book = event_data.bookmakers[p[1]].key
                /\ b.book = a.book
                /\ a.selection = oc[1].name /\ a.odds = oc[1].price
                /\ b.selection = oc[2].name /\ b.odds = oc[2].price
                /\ a.opposite = b.selection
                /\ b.opposite = a.selection

\* quotes were produced while a bookmaker that is not allowed and a market
\* that is not h2h were passed over
C9_Witness ==
    /\ pc = "parsed"
    /\ Len(all_rows) >= 4
    /\ \E b \in 1..Len(event_data.bookmakers) :
          /\ event_data.bookmakers[b].key \notin all_books
          /\ event_data.bookmakers[b].markets # <<>>
    /\ \E b \in 1..Len(event_data.bookmakers) :
          /\ event_data.bookmakers[b].key \in all_books
          /\ \E m \in 1..Len(event_data.bookmakers[b].markets) :
                event_data.bookmakers[b].markets[m].key # "h2h"

\* C7 (as claimed): a market whose outcome count is not 2 is skipped and the
\* quotes of every well-formed market of the record are still produced.
C7_MalformedMarketSkipped ==
    pc # "parse" =>
      /\ pc = "parsed"
      /\ err = "none"
      /\ Len(all_rows) = 2 * Cardinality(WellFormedH2H)

-----------------------------------------------------------------------------
(* Properties of the hedge computation (SpecHedge) *)

\* the decimal multiplier of nonzero American odds as a fraction <<n, d>>
DecimalOf(o) == IF o > 0 THEN <<100 + o, 100>> ELSE <<100 - o, -o>>

====
